---- MODULE Spec2Model ----
(***************************************************************************)
(* umeq-csi disk agent (src/unnamed/part_000): the HTTP handlers that      *)
(* publish / unpublish a qcow2 volume on a QEMU guest, the etcd-backed      *)
(* serial counter NextID and the volume -> serial bindings kept in etcd.   *)
(*                                                                         *)
(* Every handler runs on its own goroutine; a handler is cut into one      *)
(* atomic step per remote call (an etcd Get/Put/Delete or a monitor        *)
(* command sent with wrapper.Exec), so that handlers of the same or of     *)
(* different agent instances interleave at exactly those calls.            *)
(***************************************************************************)
EXTENDS Integers, Sequences, FiniteSets, TLC

(* ------------------------------ bounds --------------------------------- *)
MaxOps == 2        \* requests accepted in one behaviour of concurrent handlers
MaxOpsSeq == 3     \* requests accepted in one behaviour of one-at-a-time handlers
MaxFaults == 1     \* injected failures (etcd errors, monitor errors) in one behaviour

Workers == {1, 2}              \* request goroutines that can be in flight together
Instances == {"i1", "i2"}      \* agent processes sharing the one etcd
Volumes == {"va", "vb"}
Hosts == {"h1", "h2"}
IdKey == "id"                  \* etcd key /xiaomakai/id
Keys == Volumes \cup {IdKey}   \* etcd keys /xiaomakai/<name>
Free == 0                      \* the mutex is not held

VARIABLES
  kv,        \* etcd: a function from the keys present to their values (digit strings)
  images,    \* the qcow2 files present under diskRoot
  drive,     \* <<host, name>>: backend drive "name" added on the guest of host
  device,    \* <<host, name>>: virtio-blk device "name" plugged on the guest of host
  m,         \* per agent instance: the worker holding sync.Mutex m, or Free
  wk,        \* per worker: position and locals of the handler it runs
  log,       \* finished requests, in completion order (history)
  issued,    \* the values NextID has returned, in return order (history)
  everBound, \* <<name, serial>>: an applied Put once bound the serial to the name (history)
  bindPuts,  \* per name: the applied Puts of its binding (serial, publishing host) since its last delete (history)
  opsLeft,   \* requests that may still be accepted
  faults,    \* failures that may still be injected
  conc,      \* how many requests may be in flight together
  insts      \* the agent instances that serve requests

vars == <<kv, images, drive, device, m, wk, log, issued, everBound, bindPuts, opsLeft,
          faults, conc, insts>>

(* ------------------------- strings of digits --------------------------- *)
\* fmt.Sprintf("%d", n) for n >= 0: the decimal digits, most significant first
RECURSIVE Itoa(_)
Itoa(n) == IF n < 10 THEN <<n>> ELSE Itoa(n \div 10) \o <<n % 10>>

\* strconv.Atoi on a digit string (the error result is dropped by the caller)
RECURSIVE Atoi(_)
Atoi(s) == IF s = <<>> THEN 0 ELSE 10 * Atoi(SubSeq(s, 1, Len(s) - 1)) + s[Len(s)]

DevPrefix == <<"/dev/disk/by-id/virtio-">>

(* ------------------------------- etcd ---------------------------------- *)
\* the response of etcdcli.Get: err, or Count and Kvs[0].Value
GetResults(key) ==
  {[err |-> FALSE, cost |-> 0,
    Count |-> IF key \in DOMAIN kv THEN 1 ELSE 0,
    Value |-> IF key \in DOMAIN kv THEN kv[key] ELSE <<>>]}
  \cup (IF faults > 0 THEN {[err |-> TRUE, cost |-> 1, Count |-> 0, Value |-> <<>>]} ELSE {})

\* etcdcli.Put: the store after it; the caller drops the error, so a failed
\* Put only shows as a store that did not change
KvPut(key, val) == [k \in DOMAIN kv \cup {key} |-> IF k = key THEN val ELSE kv[k]]
PutResults(key, val) ==
  {[applied |-> TRUE, cost |-> 0, kv |-> KvPut(key, val)]}
  \cup (IF faults > 0 THEN {[applied |-> FALSE, cost |-> 1, kv |-> kv]} ELSE {})

KvDelete(key) == [k \in DOMAIN kv \ {key} |-> kv[k]]
DeleteResults(key) ==
  {[applied |-> TRUE, cost |-> 0, kv |-> KvDelete(key)]}
  \cup (IF faults > 0 THEN {[applied |-> FALSE, cost |-> 1, kv |-> kv]} ELSE {})

(* ----------------------- hypervisor control channel -------------------- *)
\* whether the guest of host h can apply the monitor command
CanApply(h, cmd, name) ==
  CASE cmd = "drive_add"  -> <<h, name>> \notin drive
    [] cmd = "device_add" -> <<h, name>> \in drive /\ <<h, name>> \notin device
    [] cmd = "device_del" -> <<h, name>> \in device
    [] cmd = "drive_del"  -> <<h, name>> \in drive

DriveAfter(h, cmd, name) ==
  CASE cmd = "drive_add" -> drive \cup {<<h, name>>}
    [] cmd = "drive_del" -> drive \ {<<h, name>>}
    [] OTHER -> drive

DeviceAfter(h, cmd, name) ==
  CASE cmd = "device_add" -> device \cup {<<h, name>>}
    [] cmd = "device_del" -> device \ {<<h, name>>}
    [] OTHER -> device

\* wrapper.Exec(node, command): ack (nil), CommandRejected (the guest did not
\* apply it) or ChannelUnreachable (applied or not, the caller cannot know)
ExecResults(h, cmd, name) ==
  (IF CanApply(h, cmd, name)
     THEN {[res |-> "ack", cost |-> 0,
            drive |-> DriveAfter(h, cmd, name), device |-> DeviceAfter(h, cmd, name)]}
     ELSE {[res |-> "rejected", cost |-> 0, drive |-> drive, device |-> device]})
  \cup
  (IF faults > 0
     THEN {[res |-> "rejected", cost |-> 1, drive |-> drive, device |-> device],
           [res |-> "unreachable", cost |-> 1, drive |-> drive, device |-> device]}
          \cup (IF CanApply(h, cmd, name)
                  THEN {[res |-> "unreachable", cost |-> 1,
                         drive |-> DriveAfter(h, cmd, name),
                         device |-> DeviceAfter(h, cmd, name)]}
                  ELSE {})
     ELSE {})

\* one command as the host saw it
Cmd(h, cmd, name, serial, res) ==
  [host |-> h, cmd |-> cmd, name |-> name, serial |-> serial, res |-> res]

(* ------------------------------ workers -------------------------------- *)
Idle ==
  [pc |-> "idle", op |-> "none", inst |-> "i1", name |-> "va", node |-> "h1",
   r |-> <<>>, idr |-> [Count |-> 0, Value |-> <<>>], id |-> <<>>, cmds |-> <<>>,
   nfaults |-> 0, pre |-> [kv |-> <<>>, drive |-> {}, device |-> {}]]

Snapshot == [kv |-> kv, drive |-> drive, device |-> device]

\* a request is accepted on a free goroutine
CanAccept(w) ==
  /\ wk[w].pc = "idle"
  /\ \A x \in Workers : x < w => wk[x].pc # "idle"
  /\ opsLeft > 0
  /\ Cardinality({x \in Workers : wk[x].pc # "idle"}) < conc

\* the targets a request may name; volume and host names are interchangeable,
\* so the first request of a behaviour is taken to name "va" and "h1"
Fresh == log = <<>> /\ \A x \in Workers : wk[x].pc = "idle"
Names == IF Fresh THEN {"va"} ELSE Volumes
Nodes == IF Fresh THEN {"h1"} ELSE Hosts

\* the history keeps the last finished requests: three of one-at-a-time
\* handlers, the last one of concurrent handlers
Keep == IF conc = 1 THEN 3 ELSE 1
Recent(l) == IF Len(l) > Keep THEN Tail(l) ELSE l

Accepted(op, name, node) ==
  [Idle EXCEPT !.op = op, !.name = name, !.node = node, !.pre = Snapshot]

\* the record of a finished request
Entry(s, outcome, post) ==
  [op |-> s.op, name |-> s.name, node |-> s.node, outcome |-> outcome,
   r |-> s.r, id |-> s.id, cmds |-> s.cmds, nfaults |-> s.nfaults,
   pre |-> s.pre, post |-> post]

\* the handler of worker w returns (or panics): its goroutine is free again
Finish(w, s, outcome) ==
  /\ wk' = [wk EXCEPT ![w] = Idle]
  /\ log' = Recent(Append(log, Entry(s, outcome, [kv |-> kv', drive |-> drive', device |-> device'])))

Goto(w, s, pc) ==
  /\ wk' = [wk EXCEPT ![w] = [s EXCEPT !.pc = pc]]
  /\ log' = log

Sent(s, cmd, serial, x) ==
  [s EXCEPT !.cmds = Append(@, Cmd(s.node, cmd, s.name, serial, x.res)),
            !.nfaults = @ + x.cost]

(* ------------------------------ NextID --------------------------------- *)
\* what NextID writes back to /xiaomakai/id after reading r
NextIDWrites(r) == IF r.Count = 0 THEN <<1>> ELSE Itoa(Atoi(r.Value) + 1)

\* what NextID returns after reading r
NextIDReturns(r) == IF r.Count = 0 THEN <<0>> ELSE r.Value

\* (variant) NextID does not take the mutex
LockSkipped(inst) == TRUE

\* m.Lock() returns: no other goroutine of the process holds m
CanLock(inst) == m[inst] = Free

\* m.Lock() and the Get of the counter; a Get error panics and the deferred
\* Unlock runs
NextIDGet(w) ==
  LET s == wk[w] IN
  /\ s.pc = "N_get"
  /\ CanLock(s.inst)
  /\ \E g \in GetResults(IdKey) :
       LET s1 == [s EXCEPT !.idr = [Count |-> g.Count, Value |-> g.Value],
                           !.nfaults = @ + g.cost] IN
       /\ faults' = faults - g.cost
       /\ UNCHANGED <<kv, images, drive, device, issued, everBound, bindPuts, opsLeft, conc, insts>>
       /\ IF g.err
            THEN m' = m /\ Finish(w, s1, "panicStore")
            ELSE m' = [m EXCEPT ![s.inst] = w] /\ Goto(w, s1, "N_put")

\* the Put of the successor, the deferred Unlock and the return
NextIDPut(w) ==
  LET s == wk[w] IN
  /\ s.pc = "N_put"
  /\ m[s.inst] = w
  /\ \E p \in PutResults(IdKey, NextIDWrites(s.idr)) :
       LET s1 == [s EXCEPT !.id = NextIDReturns(s.idr), !.nfaults = @ + p.cost,
                           !.inst = Idle.inst, !.idr = Idle.idr] IN
       /\ kv' = p.kv
       /\ faults' = faults - p.cost
       /\ m' = [m EXCEPT ![s.inst] = Free]
       /\ issued' = Append(issued, s1.id)
       /\ UNCHANGED <<images, drive, device, everBound, bindPuts, opsLeft, conc, insts>>
       /\ Goto(w, s1, "P_put")

(* ----------------- POST /disk/{name}/publish/{node} -------------------- *)
\* (variant) the error of drive_add is not looked at
PublishProceedsAnyway(res) == TRUE

\* (variant) only a rejection of drive_add ends the handler
PublishProceedsUnlessRejected(res) == res # "rejected"

\* whether the handler goes on after drive_add returned res
PublishProceeds(res) == res = "ack"

\* the request arrives and drive_add is sent; on an error the handler
\* answers 500 with the error's message
PublishDriveAdd(w) ==
  /\ CanAccept(w)
  /\ \E name \in Names, node \in Nodes :
       \E x \in ExecResults(node, "drive_add", name) :
         LET s == Sent(Accepted("Publish", name, node), "drive_add", <<>>, x) IN
         /\ drive' = x.drive
         /\ device' = x.device
         /\ faults' = faults - x.cost
         /\ opsLeft' = opsLeft - 1
         /\ UNCHANGED <<kv, images, m, issued, everBound, bindPuts, conc, insts>>
         /\ IF PublishProceeds(x.res) THEN Goto(w, s, "P_get")
            ELSE Finish(w, s, "PublishFailed")

\* (variant) the binding that was read is not looked at
PublishAlwaysAllocates(g) == TRUE

\* whether the handler allocates a serial after reading the binding
PublishAllocates(g) == g.Count = 0

\* the Get of the binding; a Get error panics.  The agent instance that serves
\* the request shows only in which mutex NextID locks, so it is drawn here,
\* where the handler turns to NextID
PublishGet(w) ==
  LET s == wk[w] IN
  /\ s.pc = "P_get"
  /\ \E g \in GetResults(s.name) :
       LET s1 == [s EXCEPT !.r = g.Value, !.nfaults = @ + g.cost] IN
       /\ faults' = faults - g.cost
       /\ UNCHANGED <<kv, images, drive, device, m, issued, everBound, bindPuts, opsLeft, conc, insts>>
       /\ IF g.err THEN Finish(w, s1, "panicStore")
          ELSE IF PublishAllocates(g)
            THEN \E inst \in insts : Goto(w, [s1 EXCEPT !.inst = inst], "N_get")
          ELSE Goto(w, s1, "P_device_add")

\* the store after the handler's Put of the binding: unconditional
BindPut(name, id) == PutResults(name, id)

\* the Put of the binding with the serial NextID returned (its error dropped)
PublishPut(w) ==
  LET s == wk[w] IN
  /\ s.pc = "P_put"
  /\ \E p \in BindPut(s.name, s.id) :
       LET s1 == [s EXCEPT !.nfaults = @ + p.cost] IN
       /\ kv' = p.kv
       /\ faults' = faults - p.cost
       /\ bindPuts' = IF p.applied
                        THEN [bindPuts EXCEPT ![s.name] = @ \cup {[serial |-> s.id, node |-> s.node]}]
                        ELSE bindPuts
       /\ everBound' = IF p.applied THEN everBound \cup {<<s.name, s.id>>} ELSE everBound
       /\ UNCHANGED <<images, drive, device, m, issued, opsLeft, conc, insts>>
       /\ Goto(w, s1, "P_get2")

\* the second Get of the binding; a Get error panics, and so does r.Kvs[0]
\* when the key is (still, or again) absent
PublishGet2(w) ==
  LET s == wk[w] IN
  /\ s.pc = "P_get2"
  /\ \E g \in GetResults(s.name) :
       LET s1 == [s EXCEPT !.r = g.Value, !.nfaults = @ + g.cost] IN
       /\ faults' = faults - g.cost
       /\ UNCHANGED <<kv, images, drive, device, m, issued, everBound, bindPuts, opsLeft, conc, insts>>
       /\ IF g.err THEN Finish(w, s1, "panicStore")
          ELSE IF g.Count = 0 THEN Finish(w, s1, "panicIndex")
          ELSE Goto(w, s1, "P_device_add")

\* (variant) a failed device_add answers 500 at once
PublishNeverCompensates(res) == FALSE

\* whether the handler sends drive_del after device_add returned res
PublishCompensates(res) == res # "ack"

\* device_add with the serial read from the binding; success answers 200
PublishDeviceAdd(w) ==
  LET s == wk[w] IN
  /\ s.pc = "P_device_add"
  /\ \E x \in ExecResults(s.node, "device_add", s.name) :
       LET s1 == Sent(s, "device_add", s.r, x) IN
       /\ drive' = x.drive
       /\ device' = x.device
       /\ faults' = faults - x.cost
       /\ UNCHANGED <<kv, images, m, issued, everBound, bindPuts, opsLeft, conc, insts>>
       /\ IF PublishCompensates(x.res) THEN Goto(w, s1, "P_drive_del")
          ELSE Finish(w, s1, IF x.res = "ack" THEN "success" ELSE "PublishFailed")

\* how the handler ends after the compensating drive_del returned res:
\* log.Panicln on an error; otherwise err is nil and err.Error() panics
PublishAfterCompensation(res) == IF res # "ack" THEN "panicDirty" ELSE "panicNil"

\* the compensating drive_del
PublishDriveDel(w) ==
  LET s == wk[w] IN
  /\ s.pc = "P_drive_del"
  /\ \E x \in ExecResults(s.node, "drive_del", s.name) :
       LET s1 == Sent(s, "drive_del", <<>>, x) IN
       /\ drive' = x.drive
       /\ device' = x.device
       /\ faults' = faults - x.cost
       /\ UNCHANGED <<kv, images, m, issued, everBound, bindPuts, opsLeft, conc, insts>>
       /\ Finish(w, s1, PublishAfterCompensation(x.res))

(* ---------------- DELETE /disk/{name}/publish/{node} ------------------- *)
\* (variant) a failed device_del answers 500 at once
UnpublishGivesUp(res) == FALSE

\* whether the handler sends drive_del after device_del returned res
UnpublishTriesDriveDel(res) == res # "ack"

\* (variant) the handler deletes the binding, as the delete handler does
UnpublishUnbinds(name) == KvDelete(name)

\* etcd after a step of the handler: it makes no etcd call
UnpublishStore(name) == kv

\* the request arrives and device_del is sent
UnpublishDeviceDel(w) ==
  /\ CanAccept(w)
  /\ \E name \in Names, node \in Nodes :
       \E x \in ExecResults(node, "device_del", name) :
         LET s == Sent(Accepted("Unpublish", name, node), "device_del", <<>>, x) IN
         /\ drive' = x.drive
         /\ device' = x.device
         /\ faults' = faults - x.cost
         /\ opsLeft' = opsLeft - 1
         /\ kv' = UnpublishStore(name)
         /\ UNCHANGED <<images, m, issued, everBound, bindPuts, conc, insts>>
         /\ IF UnpublishTriesDriveDel(x.res) THEN Goto(w, s, "U_drive_del")
            ELSE Finish(w, s, IF x.res = "ack" THEN "success" ELSE "UnpublishFailed")

\* (variant) the error of drive_del is not reported
UnpublishSwallows(res) == "success"

\* the answer after drive_del returned res: 500 on an error, else 200
UnpublishOutcome(res) == IF res # "ack" THEN "UnpublishFailed" ELSE "success"

\* drive_del, sent after a failed device_del
UnpublishDriveDel(w) ==
  LET s == wk[w] IN
  /\ s.pc = "U_drive_del"
  /\ \E x \in ExecResults(s.node, "drive_del", s.name) :
       LET s1 == Sent(s, "drive_del", <<>>, x) IN
       /\ drive' = x.drive
       /\ device' = x.device
       /\ faults' = faults - x.cost
       /\ kv' = UnpublishStore(s.name)
       /\ UNCHANGED <<images, m, issued, everBound, bindPuts, opsLeft, conc, insts>>
       /\ Finish(w, s1, UnpublishOutcome(x.res))

(* ------------------------ DELETE /disk/{name} --------------------------- *)
\* the request arrives and os.Remove runs: an error (no such file) answers 500
DeleteRemove(w) ==
  /\ CanAccept(w)
  /\ \E name \in Names :
       LET s == Accepted("Delete", name, "h1") IN
       /\ opsLeft' = opsLeft - 1
       /\ UNCHANGED <<kv, drive, device, m, issued, everBound, bindPuts, faults, conc, insts>>
       /\ IF name \in images
            THEN images' = images \ {name} /\ Goto(w, s, "D_etcd")
            ELSE images' = images /\ Finish(w, s, "DeleteFailed")

\* the etcd Delete of the binding; its error is only logged
DeleteEtcd(w) ==
  LET s == wk[w] IN
  /\ s.pc = "D_etcd"
  /\ \E d \in DeleteResults(s.name) :
       LET s1 == [s EXCEPT !.nfaults = @ + d.cost] IN
       /\ kv' = d.kv
       /\ faults' = faults - d.cost
       /\ bindPuts' = IF d.applied THEN [bindPuts EXCEPT ![s.name] = {}] ELSE bindPuts
       /\ UNCHANGED <<images, drive, device, m, issued, everBound, opsLeft, conc, insts>>
       /\ Finish(w, s1, "success")

(* ------------------------ GET /dev-path/{name} -------------------------- *)
\* the path written for the serial
DevPathOf(serial) == DevPrefix \o serial

\* the whole handler: one Get, then 500 "not found" or the path
DevPath(w) ==
  /\ CanAccept(w)
  /\ \E name \in Names :
       \E g \in GetResults(name) :
         LET s == [Accepted("DevPath", name, "h1") EXCEPT
                     !.nfaults = g.cost,
                     !.r = IF g.err \/ g.Count = 0 THEN <<>> ELSE DevPathOf(g.Value)] IN
         /\ opsLeft' = opsLeft - 1
         /\ faults' = faults - g.cost
         /\ UNCHANGED <<kv, images, drive, device, m, issued, everBound, bindPuts, conc, insts>>
         /\ Finish(w, s, IF g.err THEN "panicStore"
                         ELSE IF g.Count = 0 THEN "NotFound" ELSE "success")

(* --------------------------- HTTP answers ------------------------------- *)
StatusInternalServerError == 500

\* the status code a handler answers with; a panicking handler answers nothing
HttpStatus(outcome) ==
  CASE outcome = "success" -> 200
    [] outcome \in {"PublishFailed", "UnpublishFailed", "DeleteFailed", "NotFound"}
         -> StatusInternalServerError
    [] OTHER -> 0

Init0 ==
  /\ kv = <<>>
  /\ images = Volumes
  /\ drive = {}
  /\ device = {}
  /\ m = [i \in Instances |-> Free]
  /\ wk = [w \in Workers |-> Idle]
  /\ log = <<>>
  /\ issued = <<>>
  /\ everBound = {}
  /\ bindPuts = [v \in Volumes |-> {}]
  /\ faults = MaxFaults

Init == Init0 /\ conc = Cardinality(Workers) /\ opsLeft = MaxOps /\ insts = Instances
InitRace == Init0 /\ conc = Cardinality(Workers) /\ opsLeft = MaxOps + 1 /\ insts = Instances
InitSeq == Init0 /\ conc = 1 /\ opsLeft = MaxOpsSeq /\ insts = Instances
InitOne == Init0 /\ conc = Cardinality(Workers) /\ opsLeft = MaxOps /\ insts = {"i1"}
Next ==
  \E w \in Workers :
    \/ PublishDriveAdd(w)
    \/ PublishGet(w)
    \/ NextIDGet(w)
    \/ NextIDPut(w)
    \/ PublishPut(w)
    \/ PublishGet2(w)
    \/ PublishDeviceAdd(w)
    \/ PublishDriveDel(w)
    \/ UnpublishDeviceDel(w)
    \/ UnpublishDriveDel(w)
    \/ DeleteRemove(w)
    \/ DeleteEtcd(w)
    \/ DevPath(w)

\* handlers of any instance interleave at their remote calls
Spec == Init /\ [][Next]_vars

\* the same, with one more request accepted
SpecRace == InitRace /\ [][Next]_vars

\* concurrent handlers of one agent process
SpecOne == InitOne /\ [][Next]_vars

\* one request at a time: each handler ends before the next request arrives
SpecSeq == InitSeq /\ [][Next]_vars

TypeOK ==
  /\ DOMAIN kv \subseteq Keys
  /\ images \subseteq Volumes
  /\ drive \subseteq Hosts \X Volumes
  /\ device \subseteq Hosts \X Volumes
  /\ \A i \in Instances : m[i] \in Workers \cup {Free}
  /\ opsLeft \in 0..(MaxOps + MaxOpsSeq)
  /\ faults \in 0..MaxFaults
  /\ Len(log) + opsLeft <= MaxOps + MaxOpsSeq
(* =========================== properties ================================ *)
Failed == {"rejected", "unreachable"}

\* the request e sent cmd and the host answered with one of ress
Has(e, cmd, ress) ==
  \E i \in DOMAIN e.cmds : e.cmds[i].cmd = cmd /\ e.cmds[i].res \in ress

\* the request e sent cmd2 for its volume to its host after a cmd1 answered
\* with one of ress1, and cmd2 was answered with one of ress2
HasThen(e, cmd1, ress1, cmd2, ress2) ==
  \E i, j \in DOMAIN e.cmds :
    /\ i < j
    /\ e.cmds[i].cmd = cmd1 /\ e.cmds[i].res \in ress1
    /\ e.cmds[j].cmd = cmd2 /\ e.cmds[j].res \in ress2
    /\ e.cmds[j].host = e.node /\ e.cmds[j].name = e.name

AnyRes == {"ack"} \cup Failed

\* the serial embedded in the device_add command of request e
DeviceAddSerial(e) ==
  LET i == CHOOSE i \in DOMAIN e.cmds : e.cmds[i].cmd = "device_add" IN e.cmds[i].serial

NoFaultYet == faults = MaxFaults

\* C1: the serials returned by NextID calls that interleave arbitrarily, on any
\* instances sharing the store, are pairwise distinct (stated for behaviours
\* in which no store or channel failure occurred).
C1_SerialsPairwiseDistinct ==
  NoFaultYet => \A i, j \in DOMAIN issued : i # j => issued[i] # issued[j]

\* C2: Publish calls racing on one unbound volume name write one serial as its
\* binding, never a second one, and all use that serial in device_add (stated
\* for callers naming the same host, in behaviours without failures).
C2_OneBindingPerName ==
  NoFaultYet =>
    /\ \A v \in Volumes : \A a, b \in bindPuts[v] : a.node = b.node => a.serial = b.serial
    /\ \A w1, w2 \in Workers :
         ( /\ wk[w1].op = "Publish" /\ wk[w2].op = "Publish"
           /\ wk[w1].name = wk[w2].name /\ wk[w1].node = wk[w2].node
           /\ wk[w1].pc \in {"P_device_add", "P_drive_del"}
           /\ wk[w2].pc \in {"P_device_add", "P_drive_del"} )
         => wk[w1].r = wk[w2].r

\* C3: a Publish that does not end in success leaves no dangling backend: no
\* drive_add was acknowledged, or a later drive_del for the same volume on the
\* same host was acknowledged, or the double failure was reported
\* (PublishFailedDirty; the handler's log.Panicln is counted as that report).
C3_NoDanglingBackend ==
  \A i \in DOMAIN log :
    LET e == log[i] IN
    (e.op = "Publish" /\ e.outcome # "success") =>
      \/ ~Has(e, "drive_add", {"ack"})
      \/ HasThen(e, "drive_add", {"ack"}, "drive_del", {"ack"})
      \/ e.outcome \in {"PublishFailedDirty", "panicDirty"}

\* C4: when drive_add was acknowledged and device_add is then rejected, the
\* handler has sent drive_del for the same volume to the same host by the time
\* it ends, whatever it then reports.
C4_CompensationSent ==
  \A i \in DOMAIN log :
    LET e == log[i] IN
    (e.op = "Publish" /\ Has(e, "drive_add", {"ack"}) /\ Has(e, "device_add", {"rejected"}))
      => HasThen(e, "device_add", {"rejected"}, "drive_del", AnyRes)

C4_Witness ==
  \E i \in DOMAIN log :
    LET e == log[i] IN
    /\ e.op = "Publish" /\ Has(e, "drive_add", {"ack"})
    /\ HasThen(e, "device_add", {"rejected"}, "drive_del", AnyRes)

\* C5: when device_add fails and the compensating drive_del fails too, Publish
\* returns the outcome PublishFailedDirty as a value (the handler is not
\* aborted).
C5_DirtyReturnedAsValue ==
  \A i \in DOMAIN log :
    LET e == log[i] IN
    (e.op = "Publish" /\ HasThen(e, "device_add", Failed, "drive_del", Failed))
      => e.outcome = "PublishFailedDirty"

\* C6: when device_add fails and the compensating drive_del is acknowledged,
\* Publish completes and returns the plain outcome PublishFailed.
C6_CleanFailureReturned ==
  \A i \in DOMAIN log :
    LET e == log[i] IN
    (e.op = "Publish" /\ HasThen(e, "device_add", Failed, "drive_del", {"ack"}))
      => e.outcome = "PublishFailed"

\* C7: every Unpublish sends drive_del for the volume to the host after
\* device_del, whether device_del succeeded or failed.
C7_AlwaysBothDetaches ==
  \A i \in DOMAIN log :
    LET e == log[i] IN
    e.op = "Unpublish" => HasThen(e, "device_del", AnyRes, "drive_del", AnyRes)

\* two requests that ended one right after the other, the first on a volume
\* fully attached to the host, neither disturbed by an injected failure
TwiceUnpublished(i) ==
  /\ i + 1 \in DOMAIN log
  /\ log[i].op = "Unpublish" /\ log[i + 1].op = "Unpublish"
  /\ log[i].name = log[i + 1].name /\ log[i].node = log[i + 1].node
  /\ log[i].nfaults = 0 /\ log[i + 1].nfaults = 0
  /\ <<log[i].node, log[i].name>> \in log[i].pre.drive
  /\ <<log[i].node, log[i].name>> \in log[i].pre.device

TwicePublished(i) ==
  /\ i + 1 \in DOMAIN log
  /\ log[i].op = "Publish" /\ log[i + 1].op = "Publish"
  /\ log[i].name = log[i + 1].name /\ log[i].node = log[i + 1].node
  /\ log[i].name \in DOMAIN log[i].post.kv

\* C9: the second of two consecutive Publish calls for one volume and host
\* allocates no serial: it does not advance the counter, leaves the binding
\* as it was, and sends device_add with the serial the first call left bound.
C9_RepublishReusesSerial ==
  \A i \in DOMAIN log :
    TwicePublished(i) =>
      /\ log[i + 1].post.kv = log[i + 1].pre.kv
      /\ log[i + 1].id = <<>>
      /\ Has(log[i + 1], "device_add", AnyRes)
           => DeviceAddSerial(log[i + 1]) = log[i].post.kv[log[i].name]

C9_Witness ==
  \E i \in DOMAIN log :
    /\ TwicePublished(i)
    /\ Has(log[i + 1], "device_add", {"ack"})
    /\ DeviceAddSerial(log[i + 1]) = log[i].post.kv[log[i].name]

\* Publish, Unpublish, Publish of one volume, one right after the other, both
\* Publish calls getting as far as device_add
PublishUnpublishPublish(i) ==
  /\ i + 2 \in DOMAIN log
  /\ log[i].op = "Publish" /\ log[i + 1].op = "Unpublish" /\ log[i + 2].op = "Publish"
  /\ log[i].name = log[i + 1].name /\ log[i].name = log[i + 2].name
  /\ Has(log[i], "device_add", AnyRes) /\ Has(log[i + 2], "device_add", AnyRes)

\* C10: an Unpublish, whatever its outcome, leaves the counter and every
\* binding as they were, so a Publish after Publish, Unpublish of the same
\* volume embeds the same serial as the first Publish.
C10_UnpublishKeepsBindings ==
  /\ \A i \in DOMAIN log : log[i].op = "Unpublish" => log[i].post.kv = log[i].pre.kv
  /\ \A i \in DOMAIN log :
       PublishUnpublishPublish(i) => DeviceAddSerial(log[i + 2]) = DeviceAddSerial(log[i])

C10_Witness ==
  \E i \in DOMAIN log :
    /\ PublishUnpublishPublish(i)
    /\ log[i + 1].post.kv = log[i + 1].pre.kv
    /\ log[i].outcome = "success" /\ log[i + 2].outcome = "success"

\* C11: a serial once bound to a volume name is never bound to another name,
\* also after the first binding was deleted; in particular no two names are
\* bound to the same serial (stated for behaviours without failures).
C11_SerialNeverShared ==
  NoFaultYet => \A a, b \in everBound : a[2] = b[2] => a[1] = b[1]

\* C12: Unpublish returns UnpublishFailed exactly when device_del and
\* drive_del both fail; when device_del fails and drive_del succeeds it
\* returns success.
C12_UnpublishFailsOnlyOnBoth ==
  \A i \in DOMAIN log :
    LET e == log[i] IN
    e.op = "Unpublish" =>
      /\ e.outcome \in {"success", "UnpublishFailed"}
      /\ e.outcome = "UnpublishFailed"
           <=> (Has(e, "device_del", Failed) /\ Has(e, "drive_del", Failed))

C12_Witness ==
  \E i \in DOMAIN log :
    LET e == log[i] IN
    /\ e.op = "Unpublish" /\ e.outcome = "success"
    /\ HasThen(e, "device_del", Failed, "drive_del", {"ack"})

\* C13: NextID returns the value it has just stored: the first call, finding
\* no counter, stores the first value and returns it, and every later call
\* returns the successor it wrote (one handler at a time, no failures).
C13_ReturnsStoredValue ==
  (NoFaultYet /\ issued # <<>>) =>
    IdKey \in DOMAIN kv /\ issued[Len(issued)] = kv[IdKey]

\* C14: NextID never returns a serial whose counter update was not
\* persisted: when it has returned a serial, the stored counter is past it.
C14_ReturnedSerialPersisted ==
  \A w \in Workers :
    wk[w].pc = "P_put" => IdKey \in DOMAIN kv /\ Atoi(kv[IdKey]) > Atoi(wk[w].id)

\* C15: a path lookup for a name without binding returns NotFound, which is
\* not the internal-error answer, and changes no state.
C15_NotFoundIsNotAnError ==
  \A i \in DOMAIN log :
    LET e == log[i] IN
    (e.op = "DevPath" /\ e.nfaults = 0 /\ e.name \notin DOMAIN e.pre.kv) =>
      /\ e.outcome = "NotFound"
      /\ HttpStatus(e.outcome) # StatusInternalServerError
      /\ e.post = e.pre

\* no request from i to j deleted the volume
NotDeletedBetween(i, j, name) ==
  \A k \in DOMAIN log : (i < k /\ k < j) => ~(log[k].op = "Delete" /\ log[k].name = name)

\* C16: after a Publish that returned success, and until the volume is
\* deleted, a path lookup returns the prefix followed by the serial embedded in
\* that Publish's device_add; on a fresh system the first published volume
\* resolves to the prefix followed by "1".
C16_LookupResolvesPublishedSerial ==
  \A i, j \in DOMAIN log :
    ( /\ i < j
      /\ log[i].op = "Publish" /\ log[i].outcome = "success"
      /\ log[i].nfaults = 0
      /\ log[j].op = "DevPath" /\ log[j].name = log[i].name /\ log[j].nfaults = 0
      /\ NotDeletedBetween(i, j, log[i].name) )
    => /\ log[j].outcome = "success"
       /\ log[j].r = DevPrefix \o DeviceAddSerial(log[i])
       /\ DOMAIN log[i].pre.kv = {} => log[j].r = DevPrefix \o <<1>>

\* C17: in every Publish the binding of the volume is in the store when
\* drive_add is sent, and drive_add is sent before device_add.
C17_BindingBeforeAttach ==
  \A i \in DOMAIN log :
    LET e == log[i] IN
    e.op = "Publish" =>
      /\ e.name \in DOMAIN e.pre.kv
      /\ Has(e, "device_add", AnyRes) => HasThen(e, "drive_add", AnyRes, "device_add", AnyRes)

\* C18: when drive_add fails (rejected or unreachable) Publish returns
\* PublishFailed and sends no further command: no device_add, no drive_del.
C18_FailedAttachStops ==
  \A i \in DOMAIN log :
    LET e == log[i] IN
    (e.op = "Publish" /\ Has(e, "drive_add", Failed)) =>
      e.outcome = "PublishFailed" /\ Len(e.cmds) = 1

C18_Witness ==
  \E i \in DOMAIN log :
    LET e == log[i] IN
    /\ e.op = "Publish" /\ Has(e, "drive_add", {"unreachable"})
    /\ e.outcome = "PublishFailed" /\ Len(e.cmds) = 1

\* C19: a Publish whose drive_add fails leaves the store as it was: the
\* counter and every binding are unchanged and no serial was allocated.
C19_FailedAttachKeepsStore ==
  \A i \in DOMAIN log :
    LET e == log[i] IN
    (e.op = "Publish" /\ Has(e, "drive_add", Failed)) =>
      e.post.kv = e.pre.kv /\ e.id = <<>>

C19_Witness ==
  \E i \in DOMAIN log :
    LET e == log[i] IN
    /\ e.op = "Publish" /\ Has(e, "drive_add", Failed)
    /\ e.name \notin DOMAIN e.post.kv /\ e.post.kv = e.pre.kv /\ e.id = <<>>

\* C20: in one process, without failures, the mutex keeps the sections of
\* concurrent NextID calls apart: the k-th call to complete returns the decimal
\* string of k-1, the stored counter is the number of completed calls, and the
\* returned serials are strictly increasing.
C20_MutexSerializesNextID ==
  /\ \A w1, w2 \in Workers :
       (w1 # w2 /\ wk[w1].pc = "N_put" /\ wk[w2].pc = "N_put")
         => wk[w1].inst # wk[w2].inst
  /\ NoFaultYet =>
       /\ \A k \in DOMAIN issued : issued[k] = Itoa(k - 1)
       /\ \A j, k \in DOMAIN issued : j < k => Atoi(issued[j]) < Atoi(issued[k])
       /\ issued # <<>> => (IdKey \in DOMAIN kv /\ kv[IdKey] = Itoa(Len(issued)))

C20_Witness ==
  /\ NoFaultYet
  /\ Len(issued) = 2 /\ issued[2] = <<1>>
  /\ IdKey \in DOMAIN kv /\ kv[IdKey] = <<2>>
====
